---- MODULE Spec2Model ----
(***************************************************************************)
(* A model of web_monitoring/diffing_server.py: DiffHandler.get, the       *)
(* coroutine that looks a differ up, fetches the two resources, validates  *)
(* them against the supplied hashes and hands them to `caller` in a worker *)
(* process, and `caller`, the binder that builds the differ's keyword      *)
(* arguments from its signature.                                           *)
(*                                                                         *)
(* Python values are records [type, data]; data is always a sequence of    *)
(* naturals (the bytes of a bytes object, the code points of a str), so    *)
(* that a str and a bytes object are comparable and never equal.           *)
(***************************************************************************)
EXTENDS Integers, Sequences, FiniteSets, TLC

VARIABLES
    differs,        \* BoundDiffHandler.differs: name -> callable
    request,        \* per request: the path segment and request.arguments
    pc,             \* per request: where the coroutine `get` stands
    fetches,        \* per request: the two futures of client.fetch
    query_params,   \* per request: the local dict query_params of `get`
    future,         \* per request: the future of executor.submit
    calls,          \* per request: the keyword arguments of each call of func
    response,       \* per request: the response being built
    raised          \* per request: the exception that left `get`, if any

vars == <<differs, request, pc, fetches, query_params, future, calls,
          response, raised>>

-----------------------------------------------------------------------------
(* Bounds of the model *)

\* longest fetched body, in bytes
MaxBodyLen == 1
\* most optional query parameters one request carries besides `a` and `b`
MaxExtras == 2
\* most requests in flight at once
MaxRequests == 2
\* most occurrences of one key in a query
MaxOccurrences == 2

\* the requests a specification can hold; DOMAIN pc are those it does hold
RequestIds == 1..MaxRequests

-----------------------------------------------------------------------------
(* Python values *)

Str(s) == [type |-> "str", data |-> s]
BytesVal(s) == [type |-> "bytes", data |-> s]
None == [type |-> "NoneType", data |-> <<>>]

\* the byte values bodies are made of: "A" and 0xE9 (e-acute in ISO-8859-1,
\* an incomplete sequence in UTF-8)
ByteValues == {65, 233}

RECURSIVE SeqsUpTo(_, _)
SeqsUpTo(S, n) ==
    IF n = 0 THEN {<<>>}
    ELSE LET shorter == SeqsUpTo(S, n - 1)
         IN  shorter \cup {Append(s, x) : s \in shorter, x \in S}

Bodies == SeqsUpTo(ByteValues, MaxBodyLen)

\* dict helpers
EmptyDict == [k \in {} |-> None]
Pop(d, k) == [j \in DOMAIN d \ {k} |-> d[j]]
Put(d, k, v) == [j \in DOMAIN d \cup {k} |-> IF j = k THEN v ELSE d[j]]
SetDefault(d, k, v) == IF k \in DOMAIN d THEN d ELSE Put(d, k, v)

\* exceptions: the type, the place that raised it, the names its message holds
NoExc == [type |-> "none", where |-> "none", names |-> <<>>]
Exc(t, w, n) == [type |-> t, where |-> w, names |-> n]

-----------------------------------------------------------------------------
(* The registry: load_config and the differs the configuration names *)

Required(n) == [name |-> n, has_default |-> FALSE, default |-> None]
Optional(n, v) == [name |-> n, has_default |-> TRUE, default |-> v]

\* differs.compare_length(a_body, b_body)
compare_length ==
    [name |-> "compare_length",
     params |-> <<Required("a_body"), Required("b_body")>>]

\* differs.side_by_side_text(a_text, b_text)
side_by_side_text ==
    [name |-> "side_by_side_text",
     params |-> <<Required("a_text"), Required("b_text")>>]

\* differs.pagefreezer, which compares the two URLs
pagefreezer ==
    [name |-> "pagefreezer",
     params |-> <<Required("a_url"), Required("b_url")>>]

\* a differ whose signature takes a special name, a required parameter x of
\* the query and an optional parameter y with the default "0"
param_diff ==
    [name |-> "param_diff",
     params |-> <<Required("a_text"), Required("x"),
                  Optional("y", Str(<<48>>))>>]

\* import_module(modname), getattr(mod, funcname)
Modules ==
    [m \in {"web_monitoring.differs"} |->
        [f \in {"compare_length", "side_by_side_text", "pagefreezer",
                "param_diff"} |->
            CASE f = "compare_length" -> compare_length
              [] f = "side_by_side_text" -> side_by_side_text
              [] f = "pagefreezer" -> pagefreezer
              [] f = "param_diff" -> param_diff]]

\* the configuration file: name -> (module, function)
Config ==
    [n \in {"length", "side_by_side_text", "pagefreezer", "param_diff"} |->
        CASE n = "length" -> <<"web_monitoring.differs", "compare_length">>
          [] n = "pagefreezer" -> <<"web_monitoring.differs", "pagefreezer">>
          [] n = "side_by_side_text" ->
                <<"web_monitoring.differs", "side_by_side_text">>
          [] n = "param_diff" -> <<"web_monitoring.differs", "param_diff">>]

load_config(config) ==
    [name \in DOMAIN config |-> Modules[config[name][1]][config[name][2]]]

-----------------------------------------------------------------------------
(* The fetched resources *)

\* The value of a Content-Type header is a sequence of tokens; "charset=" is
\* the token str.split looks for.
CT_plain == <<"text/html">>
CT_utf8 == <<"text/html", "; ", "charset=", "utf-8">>
CT_latin1 == <<"text/html", "; ", "charset=", "ISO-8859-1">>
CT_bogus == <<"text/html", "; ", "charset=", "x-bogus">>

NoHeaders == [h \in {} |-> <<>>]
WithContentType(ct) == [h \in {"Content-Type"} |-> ct]

HeaderSets ==
    {NoHeaders} \cup
    {WithContentType(ct) : ct \in {CT_plain, CT_utf8, CT_latin1, CT_bogus}}

\* the URL a redirect leads to: "r"
RedirectedUrl == Str(<<114>>)

\* tornado.httpclient.HTTPResponse: request.url, effective_url, body, headers
HTTPResponse(url, eff, body, headers) ==
    [url |-> url, effective_url |-> eff, body |-> BytesVal(body),
     headers |-> headers]

NoResponse == HTTPResponse(None, None, <<>>, NoHeaders)

\* two URLs of static pages: a fetch of one, when it succeeds, always
\* resolves to the same response
UrlS == <<115>>
UrlT == <<116>>
StaticUrls == {Str(UrlS), Str(UrlT)}
StaticBody(url) == IF url = Str(UrlS) THEN <<233>> ELSE <<>>

\* the responses a fetch of `url` can resolve to
Responses(url) ==
    IF url \in StaticUrls
    THEN {HTTPResponse(url, url, StaticBody(url), WithContentType(CT_utf8))}
    ELSE {HTTPResponse(url, eff, body, headers) :
            eff \in {url, RedirectedUrl}, body \in Bodies,
            headers \in HeaderSets}

\* one hexadecimal digit, lower case, as a character
HexDigit(n) == IF n < 10 THEN 48 + n ELSE 87 + n

RECURSIVE HexOf(_)
HexOf(bs) ==
    IF bs = <<>> THEN <<>>
    ELSE <<HexDigit(bs[1] \div 16), HexDigit(bs[1] % 16)>> \o HexOf(Tail(bs))

\* hashlib.sha256(body).hexdigest(): SHA-256 is taken to be free of
\* collisions, so the digest of a body is its length and its bytes; hexdigest
\* writes it in lower-case hexadecimal digits.
Sha256HexDigest(body) == Str(HexOf(<<Len(body.data)>> \o body.data))

-----------------------------------------------------------------------------
(* caller and its helpers *)

\* the index of the last "charset=" token of a header value, 0 if none
RECURSIVE LastCharset(_, _)
LastCharset(content_type, i) ==
    IF i = 0 THEN 0
    ELSE IF content_type[i] = "charset=" THEN i
    ELSE LastCharset(content_type, i - 1)

\* _extract_encoding(headers): the text after the last 'charset=', None when
\* the header has none, KeyError when there is no Content-Type header
_extract_encoding(headers) ==
    IF "Content-Type" \notin DOMAIN headers
    THEN [exc |-> Exc("KeyError", "derive", <<"Content-Type">>),
          is_none |-> TRUE, value |-> <<>>]
    ELSE LET content_type == headers["Content-Type"]
             i == LastCharset(content_type, Len(content_type))
         IN  IF i > 0
             THEN [exc |-> NoExc, is_none |-> FALSE,
                   value |-> SubSeq(content_type, i + 1, Len(content_type))]
             ELSE [exc |-> NoExc, is_none |-> TRUE, value |-> <<>>]

\* `_extract_encoding(...) or 'UTF-8'`: None and the empty string are falsy
OrUtf8(enc) == IF enc.is_none \/ enc.value = <<>> THEN <<"UTF-8">> ELSE enc.value

\* the codec Python finds for an encoding name
Codec(encoding) ==
    IF encoding \in {<<"UTF-8">>, <<"utf-8">>} THEN "utf_8"
    ELSE IF encoding = <<"ISO-8859-1">> THEN "latin_1"
    ELSE "unknown"

IsContinuation(x) == x >= 128 /\ x <= 191

\* bytes.decode('utf-8', errors='ignore') for sequences of up to three bytes:
\* a byte that starts no valid sequence is dropped
RECURSIVE Utf8Decode(_)
Utf8Decode(bs) ==
    IF bs = <<>> THEN <<>>
    ELSE LET b1 == bs[1]
             n == Len(bs)
         IN  IF b1 < 128 THEN <<b1>> \o Utf8Decode(Tail(bs))
             ELSE IF b1 >= 194 /\ b1 <= 223 /\ n >= 2 /\ IsContinuation(bs[2])
             THEN <<(b1 - 192) * 64 + (bs[2] - 128)>>
                    \o Utf8Decode(SubSeq(bs, 3, n))
             ELSE IF /\ b1 >= 224 /\ b1 <= 239 /\ n >= 3
                     /\ IsContinuation(bs[2]) /\ IsContinuation(bs[3])
                     /\ (b1 = 224 => bs[2] >= 160)
                     /\ (b1 = 237 => bs[2] <= 159)
             THEN <<(b1 - 224) * 4096 + (bs[2] - 128) * 64 + (bs[3] - 128)>>
                    \o Utf8Decode(SubSeq(bs, 4, n))
             ELSE Utf8Decode(Tail(bs))

\* body.decode(encoding, errors='ignore'): LookupError for an unknown codec
Decode(body, encoding) ==
    LET codec == Codec(encoding)
    IN  IF codec = "unknown"
        THEN [exc |-> Exc("LookupError", "derive", encoding), value |-> None]
        ELSE [exc |-> NoExc,
              value |-> IF codec = "utf_8" THEN Str(Utf8Decode(body.data))
                        ELSE Str(body.data)]

\* the special names of the dependency injection scheme
SpecialNames == {"a_url", "b_url", "a_body", "b_body", "a_text", "b_text"}

\* the URL the fetch ended at, after redirects
EffectiveUrl(res) == res.effective_url

\* lines 111-112: a.request.url, the URL the fetch was requested with
RequestUrl(res) == res.url

\* lines 111-118: supplement query_params with the special items
\* extracted from a and b; both encodings are read from a.headers
Supplement(a, b, qp) ==
    LET q4 == SetDefault(SetDefault(SetDefault(SetDefault(qp,
                  "a_url", RequestUrl(a)), "b_url", RequestUrl(b)),
                  "a_body", a.body),
                  "b_body", b.body)
        a_enc == _extract_encoding(a.headers)
        b_enc == _extract_encoding(a.headers)
        a_text == Decode(a.body, OrUtf8(a_enc))
        b_text == Decode(b.body, OrUtf8(b_enc))
    IN  IF a_enc.exc # NoExc THEN [exc |-> a_enc.exc, query_params |-> q4]
        ELSE IF b_enc.exc # NoExc THEN [exc |-> b_enc.exc, query_params |-> q4]
        ELSE IF a_text.exc # NoExc
        THEN [exc |-> a_text.exc, query_params |-> q4]
        ELSE IF b_text.exc # NoExc
        THEN [exc |-> b_text.exc,
              query_params |-> SetDefault(q4, "a_text", a_text.value)]
        ELSE [exc |-> NoExc,
              query_params |->
                  SetDefault(SetDefault(q4, "a_text", a_text.value),
                             "b_text", b_text.value)]

\* a binder that leaves a missing parameter out instead of raising
RECURSIVE BindSkipsMissing(_, _, _, _)
BindSkipsMissing(func, i, qp, kwargs) ==
    IF i > Len(func.params) THEN [exc |-> NoExc, kwargs |-> kwargs]
    ELSE LET param == func.params[i]
         IN  IF param.name \in DOMAIN qp
             THEN BindSkipsMissing(func, i + 1, qp,
                                   Put(kwargs, param.name, qp[param.name]))
             ELSE BindSkipsMissing(func, i + 1, qp, kwargs)

\* a binder that passes func every query parameter: func(**query_params)
BindPassesAll(func, i, qp, kwargs) == [exc |-> NoExc, kwargs |-> qp]

\* lines 121-131: one keyword argument per parameter of the signature that
\* query_params holds; KeyError for a missing parameter without a default
RECURSIVE Bind(_, _, _, _)
Bind(func, i, qp, kwargs) ==
    IF i > Len(func.params) THEN [exc |-> NoExc, kwargs |-> kwargs]
    ELSE LET param == func.params[i]
         IN  IF param.name \in DOMAIN qp
             THEN Bind(func, i + 1, qp,
                       Put(kwargs, param.name, qp[param.name]))
             ELSE IF ~param.has_default
             THEN [exc |-> Exc("KeyError", "bind", <<func.name, param.name>>),
                   kwargs |-> kwargs]
             ELSE Bind(func, i + 1, qp, kwargs)

\* the positional parameters of caller(func, a, b, **query_params)
CallerPositional == {"func", "a", "b"}

\* caller(func, a, b, **query_params) up to the call of func: the keyword
\* arguments func is called with, or the exception raised before the call.
\* A keyword that names a positional parameter is a TypeError.
caller(func, a, b, qp) ==
    IF DOMAIN qp \cap CallerPositional # {}
    THEN [exc |-> Exc("TypeError", "call",
                      <<CHOOSE k \in DOMAIN qp \cap CallerPositional
                            : TRUE>>),
          kwargs |-> EmptyDict]
    ELSE LET s == Supplement(a, b, qp)
         IN  IF s.exc # NoExc THEN [exc |-> s.exc, kwargs |-> EmptyDict]
             ELSE Bind(func, 1, s.query_params, EmptyDict)

-----------------------------------------------------------------------------
(* The requests *)

\* the values of `a` and `b`: "p" and "q"
UrlA == <<112>>
UrlB == <<113>>

\* the body whose digest the requests that carry a hash give
HashedBody == BytesVal(<<233>>)

\* the optional keys of a query
OptionalKeys == {"a_hash", "b_hash", "x", "y", "func", "a_text", "zzz"}

\* the value a request gives a key, as the bytes of the query string
ArgValue(k) ==
    CASE k = "a" -> BytesVal(UrlA)
      [] k = "b" -> BytesVal(UrlB)
      [] k \in {"a_hash", "b_hash"} ->
            BytesVal(Sha256HexDigest(HashedBody).data)
      [] k = "x" -> BytesVal(<<49>>)
      [] k = "y" -> BytesVal(<<50>>)
      [] k = "func" -> BytesVal(<<102>>)
      [] k = "a_text" -> BytesVal(<<115>>)
      [] OTHER -> BytesVal(<<122>>)

\* request.arguments: key -> the list of the values given for the key
ArgumentSets ==
    {[k \in keys |-> <<ArgValue(k)>>] :
        keys \in {ab \cup extras :
                    ab \in SUBSET {"a", "b"},
                    extras \in {e \in SUBSET OptionalKeys :
                                    Cardinality(e) <= MaxExtras}}}

DifferNames == DOMAIN Config \cup {"nosuch"}

Requests == [differ : DifferNames, arguments : ArgumentSets]

\* a hexadecimal string as a client may write it, in upper case
UpperHex(cs) ==
    [i \in 1..Len(cs) |-> IF cs[i] >= 97 /\ cs[i] <= 122 THEN cs[i] - 32
                          ELSE cs[i]]

\* the values a query that repeats its keys gives a key: the URLs of the two
\* static pages, the digest of the page at UrlS in lower and in upper case
QueryValues(k) ==
    CASE k \in {"a", "b"} -> {BytesVal(UrlS), BytesVal(UrlT)}
      [] k = "a_hash" ->
            LET digest == Sha256HexDigest(BytesVal(StaticBody(Str(UrlS)))).data
            IN  {BytesVal(digest), BytesVal(UpperHex(digest))}
      [] OTHER -> {BytesVal(<<48>>), BytesVal(<<49>>)}

\* the lists of values of a key that occurs once or several times
Occurrences(k) == SeqsUpTo(QueryValues(k), MaxOccurrences) \ {<<>>}

\* request.arguments of the queries that repeat keys
QueryArgumentSets ==
    [a : Occurrences("a"), b : Occurrences("b")]
    \cup [a : Occurrences("a"), b : Occurrences("b"),
          a_hash : Occurrences("a_hash")]
    \cup [a : Occurrences("a"), b : Occurrences("b"), x : Occurrences("x")]
    \cup [a : Occurrences("a"), b : Occurrences("b"),
          a_hash : Occurrences("a_hash"), x : Occurrences("x")]

QueryRequests == [differ : {"param_diff"}, arguments : QueryArgumentSets]

\* the requests that are in flight together: for the two static pages, one
\* for each way a request can end
ConcurrentRequests ==
    LET ab == [a |-> <<BytesVal(UrlS)>>, b |-> <<BytesVal(UrlT)>>]
    IN  {[differ |-> "nosuch", arguments |-> ab],
         [differ |-> "length", arguments |-> ab],
         [differ |-> "length", arguments |-> [a |-> <<BytesVal(UrlS)>>]],
         [differ |-> "length",
          arguments |-> [a |-> <<BytesVal(UrlT)>>, b |-> <<BytesVal(UrlT)>>,
                         a_hash |-> <<ArgValue("a_hash")>>]],
         [differ |-> "param_diff", arguments |-> ab],
         [differ |-> "param_diff",
          arguments |-> [a |-> <<BytesVal(UrlS)>>, b |-> <<BytesVal(UrlT)>>,
                         x |-> <<ArgValue("x")>>]]}

-----------------------------------------------------------------------------
(* tornado.web.RequestHandler: the response *)

NewResponse ==
    [status |-> 200, reason |-> "OK", body |-> EmptyDict, finished |-> FALSE]

\* send_error(status, reason): drops what was written, sends the error page
\* and finishes; on a finished response it changes nothing
send_error(resp, status, reason) ==
    IF resp.finished THEN resp
    ELSE [status |-> status, reason |-> reason, body |-> EmptyDict,
          finished |-> TRUE]

\* write(chunk) of a dict: RuntimeError on a finished response
write(resp, key, value) ==
    IF resp.finished
    THEN [exc |-> Exc("RuntimeError", "write", <<>>), resp |-> resp]
    ELSE [exc |-> NoExc,
          resp |-> [resp EXCEPT !.body = Put(resp.body, key, value)]]

\* finish(), which tornado calls when `get` returns
finish(resp) == [resp EXCEPT !.finished = TRUE]

-----------------------------------------------------------------------------
(* DiffHandler.get *)

NoFetch == [st |-> "none", url |-> None, res |-> NoResponse]
NoFuture == [st |-> "none", exc |-> NoExc,
             result |-> [func |-> "", kwargs |-> EmptyDict]]

\* the first value of each key, decoded
FirstValues(arguments) ==
    [k \in DOMAIN arguments |-> Str(Utf8Decode(arguments[k][1].data))]

\* line 46: the last value of each key, decoded
LastValues(arguments) ==
    [k \in DOMAIN arguments |->
        Str(Utf8Decode(arguments[k][Len(arguments[k])].data))]

\* func looked up once, for the first request, and shared by all requests
FuncShared(r) ==
    LET first == CHOOSE q \in DOMAIN pc : \A p \in DOMAIN pc : q <= p
    IN  IF request[first].differ \in DOMAIN differs
        THEN differs[request[first].differ]
        ELSE [name |-> "", params |-> <<>>]

\* the call of caller made in `get` itself instead of a worker: while func
\* runs for one request, the IOLoop runs nothing of the other requests
IOLoopHeldWhileRunning(r) ==
    \A q \in DOMAIN pc \ {r} : future[q].st # "running"

\* lines 71-72: `get` yields the future of a worker process of its own
\* executor, so the IOLoop is free for the steps of the other requests
\* while func runs
IOLoopFree(r) == TRUE

\* the differ of a request (line 40)
Func(r) ==
    IF request[r].differ \in DOMAIN differs THEN differs[request[r].differ]
    ELSE [name |-> "", params |-> <<>>]

\* an exception leaves `get`: tornado answers 500
Raise(r, exc) ==
    /\ raised' = [raised EXCEPT ![r] = exc]
    /\ response' = [response EXCEPT
                      ![r] = send_error(@, 500, "Internal Server Error")]
    /\ pc' = [pc EXCEPT ![r] = "done"]

\* a and b popped with a default, query_params.pop('a', None): a missing
\* identifier is fetched as None
ParseAndFetchWithDefaults(r) ==
    LET qp == LastValues(request[r].arguments)
        a == IF "a" \in DOMAIN qp THEN qp["a"] ELSE None
        b == IF "b" \in DOMAIN qp THEN qp["b"] ELSE None
    IN  /\ query_params' = [query_params EXCEPT ![r] = Pop(Pop(qp, "a"), "b")]
        /\ fetches' = [fetches EXCEPT
               ![r] = [a |-> [st |-> "pending", url |-> a, res |-> NoResponse],
                       b |-> [st |-> "pending", url |-> b, res |-> NoResponse]]]
        /\ pc' = [pc EXCEPT ![r] = "fetching"]
        /\ UNCHANGED <<response, raised>>

\* lines 45-52: parse the query, pop a and b (KeyError when one is missing)
\* and issue both fetches
ParseAndFetch(r) ==
    LET qp == LastValues(request[r].arguments)
    IN  IF "a" \notin DOMAIN qp
        THEN /\ Raise(r, Exc("KeyError", "parse", <<"a">>))
             /\ query_params' = [query_params EXCEPT ![r] = qp]
             /\ UNCHANGED fetches
        ELSE IF "b" \notin DOMAIN qp
        THEN /\ Raise(r, Exc("KeyError", "parse", <<"b">>))
             /\ query_params' = [query_params EXCEPT ![r] = Pop(qp, "a")]
             /\ UNCHANGED fetches
        ELSE /\ query_params' =
                    [query_params EXCEPT ![r] = Pop(Pop(qp, "a"), "b")]
             /\ fetches' = [fetches EXCEPT
                    ![r] = [a |-> [st |-> "pending", url |-> qp["a"],
                                   res |-> NoResponse],
                            b |-> [st |-> "pending", url |-> qp["b"],
                                   res |-> NoResponse]]]
             /\ pc' = [pc EXCEPT ![r] = "fetching"]
             /\ UNCHANGED <<response, raised>>

\* `get` without the lookup of lines 39-43 before the fetches
StartWithoutLookup(r) ==
    /\ r \in DOMAIN pc
    /\ IOLoopFree(r)
    /\ pc[r] = "received"
    /\ ParseAndFetch(r)
    /\ UNCHANGED <<differs, request, future, calls>>

\* lines 37-52: `get` up to its first yield
Start(r) ==
    /\ r \in DOMAIN pc
    /\ IOLoopFree(r)
    /\ pc[r] = "received"
    /\ IF request[r].differ \notin DOMAIN differs
       THEN /\ response' = [response EXCEPT
                              ![r] = send_error(@, 404, "Not Found")]
            /\ pc' = [pc EXCEPT ![r] = "done"]
            /\ UNCHANGED <<fetches, query_params, raised>>
       ELSE ParseAndFetch(r)
    /\ UNCHANGED <<differs, request, future, calls>>

\* one of the two fetches resolves: with a response, or with an error
FetchComplete(r, side) ==
    /\ r \in DOMAIN pc
    /\ IOLoopFree(r)
    /\ pc[r] = "fetching"
    /\ fetches[r][side].st = "pending"
    /\ \E outcome \in
            {[st |-> "failed", url |-> fetches[r][side].url,
              res |-> NoResponse]}
            \cup {[st |-> "ok", url |-> fetches[r][side].url, res |-> res] :
                     res \in Responses(fetches[r][side].url)} :
          fetches' = [fetches EXCEPT ![r][side] = outcome]
    /\ UNCHANGED <<differs, request, pc, query_params, future, calls,
                   response, raised>>

\* line 55: the names the loop zips with the responses
HashParams == <<"a_hash", "b_hash">>

\* line 57: the key the loop pops, whatever query_param is
PoppedKey(query_param) == "a_hash"

\* lines 55-66: the loop over (a_hash, res_a), (b_hash, res_b)
RECURSIVE ValidateHashes(_, _, _)
ValidateHashes(i, qp, ress) ==
    IF i > Len(HashParams) THEN [ok |-> TRUE, query_params |-> qp]
    ELSE LET key == PoppedKey(HashParams[i])
         IN  IF key \notin DOMAIN qp THEN ValidateHashes(i + 1, qp, ress)
             ELSE LET expected_hash == qp[key]
                      actual_hash == Sha256HexDigest(ress[i].body)
                  IN  IF actual_hash # expected_hash
                      THEN [ok |-> FALSE, query_params |-> Pop(qp, key)]
                      ELSE ValidateHashes(i + 1, Pop(qp, key), ress)

\* lines 71-72: hand caller and its arguments to a worker process
Submit(r) ==
    /\ future' = [future EXCEPT ![r].st = "running"]
    /\ pc' = [pc EXCEPT ![r] = "submitted"]
    /\ UNCHANGED <<response, raised>>

\* the hash check fails without leaving `get`: the status is set and the
\* request goes on to the worker
OnMismatchNoReturn(r) ==
    /\ response' = [response EXCEPT ![r].status = 500,
                      ![r].reason = "Fetched content does not match hash."]
    /\ future' = [future EXCEPT ![r].st = "running"]
    /\ pc' = [pc EXCEPT ![r] = "submitted"]
    /\ UNCHANGED raised

\* lines 63-66: the digests differ: send the error and return
OnMismatch(r) ==
    /\ response' = [response EXCEPT ![r] =
            send_error(@, 500, "Fetched content does not match hash.")]
    /\ pc' = [pc EXCEPT ![r] = "done"]
    /\ UNCHANGED <<future, raised>>

\* the yield returns as soon as the fetch of a is done
FetchesDoneFirstOnly(f) == f.a.st \in {"ok", "failed"}

\* line 52: the yield of the list of both futures returns when both are done
FetchesDone(f) == f.a.st \in {"ok", "failed"} /\ f.b.st \in {"ok", "failed"}

\* lines 52-72: `get` from the result of the fetches to the second yield
AfterFetch(r) ==
    /\ r \in DOMAIN pc
    /\ IOLoopFree(r)
    /\ pc[r] = "fetching"
    /\ FetchesDone(fetches[r])
    /\ IF fetches[r].a.st = "failed" \/ fetches[r].b.st = "failed"
       THEN /\ Raise(r, Exc("HTTPError", "fetch",
                   <<IF fetches[r].a.st = "failed" THEN "a" ELSE "b">>))
            /\ UNCHANGED <<query_params, future>>
       ELSE LET v == ValidateHashes(1, query_params[r],
                                    <<fetches[r].a.res, fetches[r].b.res>>)
            IN  /\ query_params' = [query_params EXCEPT ![r] = v.query_params]
                /\ IF ~v.ok THEN OnMismatch(r) ELSE Submit(r)
    /\ UNCHANGED <<differs, request, fetches, calls>>

\* what func returns: a value of its keyword arguments
Result(func, kwargs) == [func |-> func.name, kwargs |-> kwargs]

\* line 72, lines 83-132: the worker process runs caller; func returns or
\* raises
WorkerRun(r) ==
    /\ r \in DOMAIN pc
    /\ future[r].st = "running"
    /\ LET c == caller(Func(r), fetches[r].a.res, fetches[r].b.res,
                       query_params[r])
       IN  IF c.exc # NoExc
           THEN /\ future' = [future EXCEPT ![r].st = "exception",
                                            ![r].exc = c.exc]
                /\ UNCHANGED calls
           ELSE /\ calls' = [calls EXCEPT ![r] = Append(@, c.kwargs)]
                /\ \E fails \in BOOLEAN :
                      future' = [future EXCEPT ![r] =
                        IF fails
                        THEN [@ EXCEPT !.st = "exception",
                                  !.exc = Exc("Exception", "func",
                                              <<Func(r).name>>)]
                        ELSE [@ EXCEPT !.st = "result",
                                  !.result = Result(Func(r), c.kwargs)]]
    /\ UNCHANGED <<differs, request, pc, fetches, query_params, response,
                   raised>>

\* lines 72-73: the second yield returns or raises; write the diff
Finish(r) ==
    /\ r \in DOMAIN pc
    /\ IOLoopFree(r)
    /\ pc[r] = "submitted"
    /\ future[r].st \in {"result", "exception"}
    /\ IF future[r].st = "exception" THEN Raise(r, future[r].exc)
       ELSE LET w == write(response[r], "diff", future[r].result)
            IN  IF w.exc # NoExc THEN Raise(r, w.exc)
                ELSE /\ response' = [response EXCEPT ![r] = finish(w.resp)]
                     /\ pc' = [pc EXCEPT ![r] = "done"]
                     /\ UNCHANGED raised
    /\ UNCHANGED <<differs, request, fetches, query_params, future, calls>>

-----------------------------------------------------------------------------
(* The specification: one request, any query and any fetched resources *)

InitFor(R, reqs) ==
    /\ differs = load_config(Config)
    /\ request \in [R -> reqs]
    /\ pc = [r \in R |-> "received"]
    /\ fetches = [r \in R |-> [a |-> NoFetch, b |-> NoFetch]]
    /\ query_params = [r \in R |-> EmptyDict]
    /\ future = [r \in R |-> NoFuture]
    /\ calls = [r \in R |-> <<>>]
    /\ response = [r \in R |-> NewResponse]
    /\ raised = [r \in R |-> NoExc]

Init == InitFor({1}, Requests)

Next ==
    \/ \E r \in RequestIds : Start(r)
    \/ \E r \in RequestIds : \E side \in {"a", "b"} : FetchComplete(r, side)
    \/ \E r \in RequestIds : AfterFetch(r)
    \/ \E r \in RequestIds : WorkerRun(r)
    \/ \E r \in RequestIds : Finish(r)

Spec == Init /\ [][Next]_vars

\* one request whose query repeats keys, for the two static pages
InitQuery == InitFor({1}, QueryRequests)

SpecQuery == InitQuery /\ [][Next]_vars

\* several requests in flight at once
InitConcurrent == InitFor(RequestIds, ConcurrentRequests)

SpecConcurrent == InitConcurrent /\ [][Next]_vars

-----------------------------------------------------------------------------
(* The claims *)

\* C1: a request that names a differ the registry does not hold ends with a
\* 404 response and neither of its fetches is ever issued.
C1_UnknownDifferNeverFetches ==
    \A r \in DOMAIN pc :
        request[r].differ \notin DOMAIN differs =>
            /\ fetches[r].a.st = "none" /\ fetches[r].b.st = "none"
            /\ pc[r] # "received" =>
                  /\ pc[r] = "done"
                  /\ response[r].finished
                  /\ response[r].status = 404

\* C1, witness: a request for an unknown differ that carries a and b has been
\* answered 404
C1_Witness ==
    \E r \in DOMAIN pc :
        /\ request[r].differ \notin DOMAIN differs
        /\ {"a", "b"} \subseteq DOMAIN request[r].arguments
        /\ pc[r] = "done"
        /\ response[r].status = 404

\* C2: when a_hash is given and differs from the digest of the body fetched
\* for a, or b_hash is given and differs from the digest of the body fetched
\* for b, the differ is not called and the request ends in an error response.
C2_HashMismatchIsError ==
    \A r \in DOMAIN pc :
        LET given == LastValues(request[r].arguments)
            Mismatch(key, f) ==
                /\ key \in DOMAIN given
                /\ f.st = "ok"
                /\ given[key] # Sha256HexDigest(f.res.body)
        IN  (Mismatch("a_hash", fetches[r].a)
                \/ Mismatch("b_hash", fetches[r].b)) =>
                /\ calls[r] = <<>>
                /\ pc[r] = "done" =>
                      /\ response[r].status >= 400
                      /\ "diff" \notin DOMAIN response[r].body

\* C3: a request for a registered differ that gives a and b and no hash, whose
\* fetches both succeed, whose differ can be given every required parameter
\* and does not fail itself, ends with a 200 response that carries `diff`,
\* whatever the headers of the fetched responses.
C3_ValidRequestYieldsDiff ==
    \A r \in DOMAIN pc :
        LET given == DOMAIN request[r].arguments
        IN  (/\ request[r].differ \in DOMAIN differs
             /\ {"a", "b"} \subseteq given
             /\ given \cap {"a_hash", "b_hash", "func"} = {}
             /\ fetches[r].a.st = "ok" /\ fetches[r].b.st = "ok"
             /\ \A i \in 1..Len(Func(r).params) :
                    \/ Func(r).params[i].has_default
                    \/ Func(r).params[i].name \in SpecialNames \cup given
             /\ raised[r].where # "func"
             /\ pc[r] = "done") =>
                /\ response[r].status = 200
                /\ "diff" \in DOMAIN response[r].body

\* C4: when a required parameter of the differ is neither a special name
\* nor a query parameter, caller calls nothing and, once the special values
\* are computed, raises the KeyError that names the differ and that parameter;
\* when every such parameter is in the query, binding does not fail and the
\* differ receives exactly the value the request gave for each.
C4_MissingRequiredParameter ==
    \A r \in DOMAIN pc :
        future[r].st \in {"result", "exception"} =>
            LET func == Func(r)
                given == LastValues(request[r].arguments)
                required == {func.params[i].name : i \in
                                {j \in 1..Len(func.params) :
                                    ~func.params[j].has_default}}
                missing == required \ (SpecialNames \cup DOMAIN given)
                before == future[r].exc.where \in {"call", "derive"}
            IN  /\ missing # {} =>
                      /\ calls[r] = <<>>
                      /\ future[r].st = "exception"
                      /\ ~before =>
                            /\ future[r].exc.type = "KeyError"
                            /\ future[r].exc.where = "bind"
                            /\ future[r].exc.names[1] = func.name
                            /\ future[r].exc.names[2] \in missing
                /\ missing = {} =>
                      /\ future[r].exc.where # "bind"
                      /\ ~before =>
                            /\ Len(calls[r]) = 1
                            /\ \A n \in required \ SpecialNames :
                                  calls[r][1][n] = given[n]

\* C4, witness: binding has failed on the parameter x of param_diff, which
\* the query does not give
C4_Witness ==
    \E r \in DOMAIN pc :
        /\ "x" \notin DOMAIN request[r].arguments
        /\ future[r].st = "exception"
        /\ future[r].exc = Exc("KeyError", "bind", <<"param_diff", "x">>)

\* C5: the differ receives, for each parameter of its signature, the special
\* value extracted from the fetched responses if the name is a special name,
\* else the query parameter of that name if there is one, else its default.
C5_SpecialValueBeatsQuery ==
    \A r \in DOMAIN pc :
        \A c \in 1..Len(calls[r]) :
            LET func == Func(r)
                special == Supplement(fetches[r].a.res, fetches[r].b.res,
                                      EmptyDict).query_params
                Received(param) ==
                    IF param.name \in DOMAIN calls[r][c]
                    THEN calls[r][c][param.name] ELSE param.default
            IN  \A i \in 1..Len(func.params) :
                    LET param == func.params[i]
                    IN  Received(param) =
                            IF param.name \in SpecialNames
                            THEN special[param.name]
                            ELSE IF param.name \in DOMAIN query_params[r]
                            THEN query_params[r][param.name]
                            ELSE param.default

\* C6: the names of the keyword arguments of every call of the differ are
\* names of its signature, and every parameter without a default is among
\* them.
C6_KwargsWithinSignature ==
    \A r \in DOMAIN pc :
        \A c \in 1..Len(calls[r]) :
            LET func == Func(r)
                declared == {func.params[i].name : i \in 1..Len(func.params)}
                required == {func.params[i].name : i \in
                                {j \in 1..Len(func.params) :
                                    ~func.params[j].has_default}}
            IN  /\ DOMAIN calls[r][c] \subseteq declared
                /\ required \subseteq DOMAIN calls[r][c]

\* C6, witness: the differ has been called for a request whose query holds a
\* name its signature does not, and without its optional parameter
C6_Witness ==
    \E r \in DOMAIN pc :
        /\ Len(calls[r]) = 1
        /\ "zzz" \in DOMAIN query_params[r]
        /\ Func(r) = param_diff
        /\ "y" \notin DOMAIN calls[r][1]

\* C7: query parameters that are not parameters of the differ change nothing:
\* the worker ends as caller ends on the query without them, with the same
\* exception or the same keyword arguments in the one call of the differ.
C7_UndeclaredParametersIgnored ==
    \A r \in DOMAIN pc :
        future[r].st \in {"result", "exception"} =>
            LET func == Func(r)
                declared == {func.params[i].name : i \in 1..Len(func.params)}
                without == [k \in DOMAIN query_params[r] \cap declared |->
                                query_params[r][k]]
                c == caller(func, fetches[r].a.res, fetches[r].b.res, without)
            IN  IF c.exc # NoExc
                THEN /\ calls[r] = <<>>
                     /\ future[r].st = "exception"
                     /\ future[r].exc = c.exc
                ELSE /\ calls[r] = <<c.kwargs>>
                     /\ future[r].exc.where \in {"none", "func"}

\* C8: the two fetches of a request are issued together; the handler goes on
\* past the fetches only when both are done; and when either has failed the
\* differ is never submitted or called and the request ends in the 500
\* response of the fetch error, without diff.
C8_BothFetchesOrFail ==
    \A r \in DOMAIN pc :
        LET f == fetches[r]
            done(x) == x.st \in {"ok", "failed"}
        IN  /\ (f.a.st = "none") <=> (f.b.st = "none")
            /\ (pc[r] \in {"submitted", "done"} /\ f.a.st # "none") =>
                  (done(f.a) /\ done(f.b))
            /\ future[r].st # "none" => (f.a.st = "ok" /\ f.b.st = "ok")
            /\ (f.a.st = "failed" \/ f.b.st = "failed") =>
                  /\ calls[r] = <<>>
                  /\ future[r].st = "none"
                  /\ pc[r] \in {"fetching", "done"}
                  /\ pc[r] = "done" =>
                        /\ raised[r].type = "HTTPError"
                        /\ response[r].finished
                        /\ response[r].status = 500
                        /\ "diff" \notin DOMAIN response[r].body

\* C8, witness: a request whose fetch of a succeeded and whose fetch of b
\* failed has ended in the error
C8_Witness ==
    \E r \in DOMAIN pc :
        /\ fetches[r].a.st = "ok"
        /\ fetches[r].b.st = "failed"
        /\ pc[r] = "done"
        /\ response[r].status = 500

\* C9: a request that has ended has a finished response, and a response is
\* never an error that carries diff: it is a 200 with diff or an error
\* without.
C9_NoPartialResponse ==
    \A r \in DOMAIN pc :
        /\ pc[r] = "done" => response[r].finished
        /\ response[r].status # 200 => "diff" \notin DOMAIN response[r].body
        /\ response[r].finished =>
              \/ /\ response[r].status = 200
                 /\ "diff" \in DOMAIN response[r].body
              \/ /\ response[r].status >= 400
                 /\ "diff" \notin DOMAIN response[r].body

\* C9, witness: a request has ended in the error of a hash mismatch
C9_Witness ==
    \E r \in DOMAIN pc :
        /\ pc[r] = "done"
        /\ response[r].status = 500
        /\ response[r].reason = "Fetched content does not match hash."

\* C10: the b_text the differ receives from the fetched resource is the body
\* of b decoded with the charset of b's own Content-Type header, and as UTF-8
\* when b declares none.
C10_BTextUsesOwnCharset ==
    \A r \in DOMAIN pc :
        \A c \in 1..Len(calls[r]) :
            LET b == fetches[r].b.res
                own == IF "Content-Type" \in DOMAIN b.headers
                       THEN OrUtf8(_extract_encoding(b.headers))
                       ELSE <<"UTF-8">>
            IN  (/\ "b_text" \in DOMAIN calls[r][c]
                 /\ "b_text" \notin DOMAIN query_params[r]
                 /\ Codec(own) # "unknown") =>
                    calls[r][c]["b_text"] = Decode(b.body, own).value

\* C11: computing a_text and b_text never raises; a body whose Content-Type
\* header is absent, has no charset or names an unknown charset reaches the
\* differ decoded as UTF-8 with the undecodable bytes dropped.
C11_TextNeverRaises ==
    \A r \in DOMAIN pc :
        /\ future[r].exc.where # "derive"
        /\ \A c \in 1..Len(calls[r]) :
              LET a == fetches[r].a.res
                  declared == IF "Content-Type" \in DOMAIN a.headers
                              THEN OrUtf8(_extract_encoding(a.headers))
                              ELSE <<"UTF-8">>
              IN  (/\ "a_text" \in DOMAIN calls[r][c]
                   /\ "a_text" \notin DOMAIN query_params[r]
                   /\ Codec(declared) \in {"utf_8", "unknown"}) =>
                      calls[r][c]["a_text"] = Str(Utf8Decode(a.body.data))

\* C13: the keys a, b, a_hash and b_hash are consumed by the handler: none
\* of them is among the query parameters handed to caller, and a differ never
\* receives the a_hash or b_hash of the request.
C13_ReservedKeysNotForwarded ==
    \A r \in DOMAIN pc :
        /\ future[r].st # "none" =>
              DOMAIN query_params[r] \cap {"a", "b", "a_hash", "b_hash"} = {}
        /\ \A c \in 1..Len(calls[r]) :
              DOMAIN calls[r][c] \cap {"a_hash", "b_hash"}
                  \cap DOMAIN request[r].arguments = {}

\* C14: a request whose binding fails on a missing required parameter ends
\* in a 4xx response, and one whose differ fails in a 5xx response.
C14_BindingFailureIsClientError ==
    \A r \in DOMAIN pc :
        pc[r] = "done" =>
            /\ raised[r].where = "bind" =>
                  (response[r].status >= 400 /\ response[r].status <= 499)
            /\ raised[r].where = "func" => response[r].status >= 500

\* C20: a request for a registered differ that gives no a or no b issues no
\* fetch, submits and calls nothing, and ends in the 500 response of the
\* KeyError raised where the identifiers are popped, without diff.
C20_MissingIdentifierFailsBeforeFetch ==
    \A r \in DOMAIN pc :
        (/\ request[r].differ \in DOMAIN differs
         /\ ~({"a", "b"} \subseteq DOMAIN request[r].arguments)) =>
            /\ fetches[r].a.st = "none" /\ fetches[r].b.st = "none"
            /\ future[r].st = "none"
            /\ calls[r] = <<>>
            /\ pc[r] \in {"received", "done"}
            /\ pc[r] = "done" =>
                  /\ raised[r].type = "KeyError"
                  /\ raised[r].where = "parse"
                  /\ response[r].finished
                  /\ response[r].status = 500
                  /\ "diff" \notin DOMAIN response[r].body

\* C20, witness: a request for a registered differ that gives a and not b has
\* ended in the error
C20_Witness ==
    \E r \in DOMAIN pc :
        /\ request[r].differ \in DOMAIN differs
        /\ "a" \in DOMAIN request[r].arguments
        /\ "b" \notin DOMAIN request[r].arguments
        /\ pc[r] = "done"
        /\ raised[r] = Exc("KeyError", "parse", <<"b">>)

\* C16 as claimed: the a_url and b_url the differ receives from the fetches
\* are the final URLs of the fetches, after redirects.
C16_UrlIsFinalUrl ==
    \A r \in DOMAIN pc :
        \A c \in 1..Len(calls[r]) :
            /\ ("a_url" \in DOMAIN calls[r][c] \ DOMAIN query_params[r]) =>
                  calls[r][c]["a_url"] = fetches[r].a.res.effective_url
            /\ ("b_url" \in DOMAIN calls[r][c] \ DOMAIN query_params[r]) =>
                  calls[r][c]["b_url"] = fetches[r].b.res.effective_url

\* C16 as amended: the a_url and b_url the differ receives from the fetches
\* are the URLs the fetches were requested with, the values of a and b of
\* the request, also when a fetch was redirected to another URL.
C16_UrlIsRequestedUrl ==
    \A r \in DOMAIN pc :
        \A c \in 1..Len(calls[r]) :
            LET Given(k) ==
                    Str(request[r].arguments[k][Len(request[r].arguments[k])]
                            .data)
            IN  /\ ("a_url" \in DOMAIN calls[r][c] \ DOMAIN query_params[r])
                      => calls[r][c]["a_url"] = Given("a")
                /\ ("b_url" \in DOMAIN calls[r][c] \ DOMAIN query_params[r])
                      => calls[r][c]["b_url"] = Given("b")

\* C16, witness: a differ has received a_url for a fetch that was redirected
C16_Witness ==
    \E r \in DOMAIN pc :
        /\ Len(calls[r]) = 1
        /\ "a_url" \in DOMAIN calls[r][1]
        /\ fetches[r].a.res.effective_url # fetches[r].a.res.url

\* C18: the phases of a request occur in the order lookup, fetch, validate,
\* bind, execute, respond: the differ is called at most once, and only after
\* the lookup succeeded, both fetches succeeded and every hash supplied in
\* the request was found equal to the digest of its body; a request in a
\* terminal state takes no further step.
C18_PhasesInOrder ==
    \A r \in DOMAIN pc :
        LET supplied == LastValues(request[r].arguments)
            Validated(k, side) ==
                k \in DOMAIN supplied =>
                    supplied[k] = Sha256HexDigest(fetches[r][side].res.body)
        IN  /\ fetches[r].a.st # "none" => request[r].differ \in DOMAIN differs
            /\ future[r].st # "none" =>
                  fetches[r].a.st = "ok" /\ fetches[r].b.st = "ok"
            /\ Len(calls[r]) <= 1
            /\ calls[r] # <<>> =>
                  /\ request[r].differ \in DOMAIN differs
                  /\ fetches[r].a.st = "ok" /\ fetches[r].b.st = "ok"
                  /\ Validated("a_hash", "a")
                  /\ Validated("b_hash", "b")
                  /\ future[r].st \in {"result", "exception"}
            /\ response[r].finished => pc[r] = "done"
            /\ pc[r] = "done" =>
                  ~ENABLED (\/ Start(r)
                            \/ \E side \in {"a", "b"} : FetchComplete(r, side)
                            \/ AfterFetch(r)
                            \/ WorkerRun(r)
                            \/ Finish(r))

\* C12: a supplied hash that equals the SHA-256 hex digest of the fetched
\* body up to letter case passes validation: the request goes on to the
\* worker instead of ending with the hash error.
C12_HashMatchIgnoresCase ==
    \A r \in DOMAIN pc :
        LET args == request[r].arguments
            given == Utf8Decode(args["a_hash"][Len(args["a_hash"])].data)
            lower == [i \in 1..Len(given) |->
                        IF given[i] >= 65 /\ given[i] <= 90
                        THEN given[i] + 32 ELSE given[i]]
        IN  (/\ "a_hash" \in DOMAIN args
             /\ pc[r] \in {"submitted", "done"}
             /\ fetches[r].a.st = "ok" /\ fetches[r].b.st = "ok"
             /\ Str(lower) = Sha256HexDigest(fetches[r].a.res.body)) =>
                /\ future[r].st # "none"
                /\ response[r].reason # "Fetched content does not match hash."

\* C17: a key that occurs several times in the query has the value of its
\* last occurrence everywhere: as the URL fetched for a and for b, as the
\* hash compared with the digest, and as the argument the differ receives.
C17_LastOccurrenceWins ==
    \A r \in DOMAIN pc :
        LET args == request[r].arguments
            Last(k) == Str(Utf8Decode(args[k][Len(args[k])].data))
            mismatch ==
                response[r].reason = "Fetched content does not match hash."
        IN  /\ fetches[r].a.st # "none" => fetches[r].a.url = Last("a")
            /\ fetches[r].b.st # "none" => fetches[r].b.url = Last("b")
            /\ (/\ "a_hash" \in DOMAIN args
                /\ pc[r] \in {"submitted", "done"}
                /\ fetches[r].a.st = "ok" /\ fetches[r].b.st = "ok") =>
                   (mismatch <=>
                      Last("a_hash") #
                          Sha256HexDigest(fetches[r].a.res.body))
            /\ \A c \in 1..Len(calls[r]) :
                  ("x" \in DOMAIN calls[r][c] /\ "x" \in DOMAIN args) =>
                      calls[r][c]["x"] = Last("x")

\* C17, witness: the differ was called for a request whose a, a_hash and x
\* each occur twice with two different values
C17_Witness ==
    \E r \in DOMAIN pc :
        LET args == request[r].arguments
        IN  /\ Len(calls[r]) = 1
            /\ {"a", "a_hash", "x"} \subseteq DOMAIN args
            /\ \A k \in {"a", "a_hash", "x"} :
                  Len(args[k]) = 2 /\ args[k][1] # args[k][2]
            /\ "x" \in DOMAIN calls[r][1]

\* C15: while the differ of one request runs in its worker, every other
\* request that has not reached its terminal state has a step it can take:
\* a running comparison blocks no step of another request.
C15_RunningDifferBlocksNobody ==
    \A r1 \in DOMAIN pc :
        future[r1].st = "running" =>
            \A r2 \in DOMAIN pc \ {r1} :
                pc[r2] # "done" =>
                    ENABLED (\/ Start(r2)
                             \/ \E side \in {"a", "b"} :
                                    FetchComplete(r2, side)
                             \/ AfterFetch(r2)
                             \/ WorkerRun(r2)
                             \/ Finish(r2))

\* C15, witness: the differ of one request is running in its worker and
\* another request, past lookup, fetch, validation, binding and execution,
\* ends with its diff as the next step
C15_Witness ==
    \E r1, r2 \in DOMAIN pc :
        /\ r1 # r2
        /\ future[r1].st = "running"
        /\ pc[r2] = "submitted"
        /\ future[r2].st = "result"
        /\ ENABLED Finish(r2)

\* C19: whatever the interleaving of the requests, the registry stays the
\* one load_config built, a step changes the state of one request only, and
\* what a request's differ receives and what the request answers are
\* determined by its own query, its own fetched resources and its own
\* worker: they are the same whatever the other requests do or how they end.
C19_RequestsAreIsolated ==
    [][LET registry == load_config(Config)
       IN  /\ differs' = registry
           /\ \E r \in DOMAIN pc :
                 \A q \in DOMAIN pc \ {r} :
                     /\ request'[q] = request[q]
                     /\ pc'[q] = pc[q]
                     /\ fetches'[q] = fetches[q]
                     /\ query_params'[q] = query_params[q]
                     /\ future'[q] = future[q]
                     /\ calls'[q] = calls[q]
                     /\ response'[q] = response[q]
                     /\ raised'[q] = raised[q]
           /\ \A r \in DOMAIN pc :
                 LET req == request'[r]
                     args == LastValues(req.arguments)
                     registered == req.differ \in DOMAIN registry
                     own == registry[req.differ]
                     a == fetches'[r].a
                     b == fetches'[r].b
                     fetched == a.st = "ok" /\ b.st = "ok"
                     hash_ok == "a_hash" \in DOMAIN args =>
                                    args["a_hash"] = Sha256HexDigest(a.res.body)
                     expected == caller(own, a.res, b.res,
                                     Pop(Pop(Pop(args, "a"), "b"), "a_hash"))
                     ok == /\ registered
                           /\ {"a", "b"} \subseteq DOMAIN args
                           /\ fetched
                           /\ hash_ok
                           /\ future'[r].st = "result"
                 IN  /\ \A c \in 1..Len(calls'[r]) :
                           /\ registered /\ fetched
                           /\ expected.exc = NoExc
                           /\ calls'[r][c] = expected.kwargs
                     /\ pc'[r] = "done" =>
                           /\ response'[r].status = 404 <=> ~registered
                           /\ response'[r].status = 200 <=> ok
                           /\ ok => response'[r].body =
                                 [diff |-> Result(own, expected.kwargs)]
                           /\ ~ok => response'[r].body = EmptyDict
                           /\ response'[r].finished]_vars

\* C19, witness: of two requests, one has ended in an error and the other
\* with the diff of its own differ
C19_Witness ==
    \E r1, r2 \in DOMAIN pc :
        /\ r1 # r2
        /\ pc[r1] = "done" /\ response[r1].status >= 400
        /\ pc[r2] = "done" /\ response[r2].status = 200
        /\ "diff" \in DOMAIN response[r2].body
        /\ request[r1].differ # request[r2].differ

=============================================================================
